---- MODULE Spec2Model ----
(***************************************************************************)
(* A model of small_circles.py: the spherical vector / projection engine.  *)
(*                                                                         *)
(* Numbers.  The program computes in floating point; the model computes    *)
(* exactly.  Every number the modelled code produces on the inputs used    *)
(* here is of the form  s * sqrt(q)  with s a sign and q a non-negative    *)
(* rational, so a number is the record [s |-> sign, q |-> <<num, den>>].   *)
(* An angle in [0, pi] is identified by its cosine, an angle in degrees    *)
(* on the 30/45 degree grid by its integer number of degrees.              *)
(***************************************************************************)
EXTENDS Integers, Sequences, FiniteSets, TLC

----------------------------------------------------------------------------
(* Exact arithmetic                                                         *)

Sgn(x) == IF x > 0 THEN 1 ELSE IF x < 0 THEN -1 ELSE 0

Abs(x) == IF x < 0 THEN -x ELSE x

RECURSIVE GCD(_, _)
GCD(a, b) == IF b = 0 THEN a ELSE GCD(b, a % b)

\* the rational n/d in lowest terms with a positive denominator
Rat(n, d) ==
    LET g == GCD(Abs(n), Abs(d))
    IN  <<(Sgn(d) * n) \div g, Abs(d) \div g>>

RAdd(a, b) == Rat(a[1] * b[2] + b[1] * a[2], a[2] * b[2])

RSub(a, b) == Rat(a[1] * b[2] - b[1] * a[2], a[2] * b[2])

RMul(a, b) == Rat(a[1] * b[1], a[2] * b[2])

RDiv(a, b) == Rat(a[1] * b[2], a[2] * b[1])

RLt(a, b) == a[1] * b[2] < b[1] * a[2]

IsSquare(n) == \E k \in 0..n : k * k = n

ISqrt(n) == CHOOSE k \in 0..n : k * k = n

\* the number s * sqrt(q)
Num(s, q) == IF q[1] = 0 \/ s = 0 THEN [s |-> 0, q |-> <<0, 1>>] ELSE [s |-> s, q |-> q]

NInt(n) == Num(Sgn(n), <<n * n, 1>>)

NRat(r) == Num(Sgn(r[1]), RMul(r, r))

Zero == NInt(0)

One == NInt(1)

NNeg(a) == Num(-a.s, a.q)

NAbs(a) == Num(Abs(a.s), a.q)

NMul(a, b) == Num(a.s * b.s, RMul(a.q, b.q))

NDiv(a, b) == Num(a.s * b.s, RDiv(a.q, b.q))

\* a * a, a rational
NSq(a) == a.q

\* sqrt of a non-negative rational
NSqrtR(r) == Num(1, r)

\* x |-> sgn(x) * x^2 is increasing, so it orders the numbers
NKey(a) == <<a.s * a.q[1], a.q[2]>>

NLt(a, b) == RLt(NKey(a), NKey(b))

\* a + b, defined when one is zero or a / b is rational
NAdd(a, b) ==
    IF a.s = 0 THEN b
    ELSE IF b.s = 0 THEN a
    ELSE LET t == RDiv(a.q, b.q)                         \* (a/b)^2
             r == <<a.s * b.s * ISqrt(t[1]), ISqrt(t[2])>>  \* a/b
             f == RAdd(r, <<1, 1>>)                      \* a/b + 1
         IN  Num(Sgn(f[1]) * b.s, RMul(RMul(f, f), b.q))

NSub(a, b) == NAdd(a, NNeg(b))

\* np.clip(a, -1, 1)
NClip(a) == IF NLt(One, a) THEN One ELSE IF NLt(a, NNeg(One)) THEN NNeg(One) ELSE a

----------------------------------------------------------------------------
(* Python lists                                                             *)

Reverse(s) == [k \in 1..Len(s) |-> s[Len(s) + 1 - k]]

RECURSIVE Flatten(_)
Flatten(ss) == IF ss = <<>> THEN <<>> ELSE Head(ss) \o Flatten(Tail(ss))

----------------------------------------------------------------------------
(* Integer 3-vectors: np.dot, np.cross                                      *)

Dot(a, b) == a[1] * b[1] + a[2] * b[2] + a[3] * b[3]

Cross(a, b) ==
    <<a[2] * b[3] - a[3] * b[2], a[3] * b[1] - a[1] * b[3], a[1] * b[2] - a[2] * b[1]>>

----------------------------------------------------------------------------
(* Vector                                                                   *)

\* An angle in (-pi, pi]: its cosine, and whether it is negative.
Angle(neg, c) == [neg |-> neg, cos |-> c]

\* math.acos of a number in [-1, 1]
Acos(c) == Angle(FALSE, c)

\* abs() of an angle
AbsAngle(t) == Angle(FALSE, t.cos)

\* a < t for two angles in [0, pi]: the cosine is strictly decreasing there
AngleLt(a, t) == NLt(t.cos, a.cos)

\* Vector.length
length(self) == NSqrtR(<<Dot(self, self), 1>>)

\* Vector.cross_with: a Vector of three components
cross_with(self, other) == Cross(self, other)

\* math.atan2(y, x) of two integers
Atan2(y, x) ==
    IF x = 0 /\ y = 0 THEN Angle(FALSE, One)
    ELSE Angle(y < 0, NDiv(NInt(x), NSqrtR(<<x * x + y * y, 1>>)))

\* math.atan2 called with an array y and a scalar x: the array is converted
\* with float(), which raises TypeError unless it holds exactly one element
math_atan2(y, x) ==
    IF Len(y) # 1 THEN [ok |-> FALSE, err |-> "TypeError"]
    ELSE [ok |-> TRUE, angle |-> Atan2(y[1], x)]

\* Vector.angle_with
angle_with(self, other, precise) ==
    IF ~precise
    THEN LET self_length == length(self)
             other_length == NSqrtR(<<Dot(other, other), 1>>)
         IN  [ok |-> TRUE,
              angle |-> Acos(NClip(NDiv(NInt(Dot(self, other)),
                                        NMul(self_length, other_length))))]
    ELSE math_atan2(cross_with(self, other), Dot(self, other))

----------------------------------------------------------------------------
(* ProjectionPlot._clip_lines and ProjectionPlot._join_segments             *)

\* total number of points of a call's input
MaxPoints == 4

\* the points the inputs are drawn from (z = -1, -1, 0, 1)
Points == {<<1, 0, -1>>, <<1, 1, -1>>, <<-1, 0, 0>>, <<0, 0, 1>>}

\* the z thresholds the inputs are drawn from
ZTols == {0, 1}

\* the angular tolerances the inputs are drawn from: 0, 60 and 120 degrees
CTols == {Acos(One), Acos(NRat(<<1, 2>>)), Acos(NRat(<<-1, 2>>))}

PointSeqs == UNION {[1..n -> Points] : n \in 0..MaxPoints}

SetMin(S) == CHOOSE x \in S : \A y \in S : x <= y

\* the segments of pts cut after each position of cuts
RECURSIVE SplitFrom(_, _, _)
SplitFrom(pts, cuts, start) ==
    IF start > Len(pts) THEN <<>>
    ELSE LET e == SetMin({c \in cuts \cup {Len(pts)} : c >= start})
         IN  <<SubSeq(pts, start, e)>> \o SplitFrom(pts, cuts, e + 1)

\* Inside with the comparison weakened to z <= z_tol
Inside_le(p, zt) == p[3] <= zt

\* inside = z < z_tol
Inside(p, zt) == p[3] < zt

\* one iteration of the scan of _clip_lines
ClipScan(cur, res, p, zt) ==
    IF Inside(p, zt) THEN [current |-> Append(cur, p), results |-> res]
    ELSE IF cur # <<>> THEN [current |-> <<>>, results |-> Append(res, cur)]
    ELSE [current |-> cur, results |-> res]

\* the end of _clip_lines: the last run is closed
ClipFlush(cur, res) == IF cur # <<>> THEN Append(res, cur) ELSE res

\* abs(a.angle_with(b)) < c_tol
Close(a, b, tol) == AngleLt(AbsAngle(angle_with(a, b, FALSE).angle), tol)

Last(s) == s[Len(s)]

\* Merge with the head-to-tail branch extending the wrong list
Merge_swapped(segment, segment_b, tol) ==
    IF Close(Last(segment), segment_b[1], tol)
    THEN [merged |-> TRUE, segment |-> segment \o segment_b]
    ELSE IF Close(segment[1], Last(segment_b), tol)
    THEN [merged |-> TRUE, segment |-> segment \o segment_b]
    ELSE IF Close(Last(segment), Last(segment_b), tol)
    THEN [merged |-> TRUE, segment |-> segment \o Reverse(segment_b)]
    ELSE IF Close(segment[1], segment_b[1], tol)
    THEN [merged |-> TRUE, segment |-> segment_b \o Reverse(segment)]
    ELSE [merged |-> FALSE, segment |-> segment]

\* Merge with the last elif written as an else
Merge_else(segment, segment_b, tol) ==
    IF Close(Last(segment), segment_b[1], tol)
    THEN [merged |-> TRUE, segment |-> segment \o segment_b]
    ELSE IF Close(segment[1], Last(segment_b), tol)
    THEN [merged |-> TRUE, segment |-> segment_b \o segment]
    ELSE IF Close(Last(segment), Last(segment_b), tol)
    THEN [merged |-> TRUE, segment |-> segment \o Reverse(segment_b)]
    ELSE [merged |-> TRUE, segment |-> segment_b \o Reverse(segment)]

\* Merge with the tail-to-tail branch leaving out the point the two lists share
Merge_dedup(segment, segment_b, tol) ==
    IF Close(Last(segment), segment_b[1], tol)
    THEN [merged |-> TRUE, segment |-> segment \o segment_b]
    ELSE IF Close(segment[1], Last(segment_b), tol)
    THEN [merged |-> TRUE, segment |-> segment_b \o segment]
    ELSE IF Close(Last(segment), Last(segment_b), tol)
    THEN [merged |-> TRUE, segment |-> segment \o Tail(Reverse(segment_b))]
    ELSE IF Close(segment[1], segment_b[1], tol)
    THEN [merged |-> TRUE, segment |-> segment_b \o Reverse(segment)]
    ELSE [merged |-> FALSE, segment |-> segment]

\* the if/elif chain of _join_segments on the popped segment and segments[0]
Merge(segment, segment_b, tol) ==
    IF Close(Last(segment), segment_b[1], tol)
    THEN [merged |-> TRUE, segment |-> segment \o segment_b]
    ELSE IF Close(segment[1], Last(segment_b), tol)
    THEN [merged |-> TRUE, segment |-> segment_b \o segment]
    ELSE IF Close(Last(segment), Last(segment_b), tol)
    THEN [merged |-> TRUE, segment |-> segment \o Reverse(segment_b)]
    ELSE IF Close(segment[1], segment_b[1], tol)
    THEN [merged |-> TRUE, segment |-> segment_b \o Reverse(segment)]
    ELSE [merged |-> FALSE, segment |-> segment]

\* the list that the if/elif chain of _join_segments extends in place
Extended(segment, segment_b, tol) ==
    IF Close(Last(segment), segment_b[1], tol) THEN "segment"
    ELSE IF Close(segment[1], Last(segment_b), tol) THEN "segment_b"
    ELSE IF Close(Last(segment), Last(segment_b), tol) THEN "segment"
    ELSE IF Close(segment[1], segment_b[1], tol) THEN "segment_b"
    ELSE "none"

VARIABLES
    entry,       \* which function the caller invoked: "as_lines" or "_join_segments"
    data,        \* _clip_lines: the point sequence
    z_tol,       \* _clip_lines: the z threshold
    idx,         \* _clip_lines: number of points scanned so far
    current,     \* _clip_lines: the run being built
    results,     \* _clip_lines: the runs closed so far
    clipped,     \* the value _clip_lines returned
    segs0,       \* _join_segments: the value of its argument at the call
    segments,    \* _join_segments: the list object it is given and works on
    ids,         \* which list object each element of segments is: ids[i] = k
                 \* when segments[i] is the k-th list of the argument at the call
    objs,        \* objs[k]: the contents of the k-th list of the argument now
    all_joined,  \* _join_segments: the loop flag
    c_tol,       \* _join_segments: the angular tolerance
    iters,       \* _join_segments: loop iterations run so far
    pc           \* "clip", "join" or "done"

linesVars ==
    <<entry, data, z_tol, idx, current, results, clipped, segs0, segments, ids,
      objs, all_joined, c_tol, iters, pc>>

VARIABLES
    a_self,      \* Vector.angle_with: self
    a_other,     \* Vector.angle_with: other
    a_default,   \* the outcome of self.angle_with(other)
    a_precise    \* the outcome of self.angle_with(other, precise=True)

angleVars == <<a_self, a_other, a_default, a_precise>>

VARIABLES
    set_a,       \* a VectorSet A
    set_b,       \* a VectorSet B
    x_pc,        \* "ab": in A.normalized_cross_with(B), "ba": in B.normalized_cross_with(A), "done"
    x_i,         \* normalized_cross_with: the counter i
    x_vectors,   \* normalized_cross_with: the array vectors
    x_ab,        \* the value A.normalized_cross_with(B) returned
    x_ba         \* the value B.normalized_cross_with(A) returned

crossVars == <<set_a, set_b, x_pc, x_i, x_vectors, x_ab, x_ba>>

VARIABLES
    p_kind,      \* the projection's class: "EqualAngle", "Orthographic" or "EqualArea"
    p_rotation,  \* Projection.rotation: <<azim, plng, rake>> or <<>> for None
    p_R,         \* Projection.R
    p_I,         \* Projection.I
    p_data,      \* the point v given to direct
    p_listed,    \* whether direct is given the list [v] or the bare point v
    p_invert,    \* direct's invert_positive
    p_rotate,    \* direct's rotate
    p_pre,       \* the (x, y, z) _pre_direct handed to _dtr
    p_XY,        \* the (X, Y) direct returned
    p_unrotate,  \* inverse's rotate
    p_back,      \* the outcome of inverse
    p_pc         \* "new", "projected" or "inverted"

projVars ==
    <<p_kind, p_rotation, p_R, p_I, p_data, p_listed, p_invert, p_rotate, p_pre,
      p_XY, p_unrotate, p_back, p_pc>>

VARIABLES
    t_trend,     \* from_attitude: trend, in degrees
    t_plunge,    \* from_attitude: plunge, in degrees
    t_vec,       \* the Vector from_attitude returned
    t_att,       \* the (trend, plunge) its attitude property returned
    t_pc         \* "new", "vector" or "done"

attVars == <<t_trend, t_plunge, t_vec, t_att, t_pc>>

VARIABLES
    r_angles,    \* the caller's <<azimuth, plunge, rake>>, in degrees
    r_full,      \* the value build_rotation_matrix(azimuth, plunge, rake) returned
    r_azim,      \* the value build_rotation_matrix(azimuth, 0, 0) returned
    r_plng,      \* the value build_rotation_matrix(0, plunge, 0) returned
    r_rake       \* the value build_rotation_matrix(0, 0, rake) returned

rotVars == <<r_angles, r_full, r_azim, r_plng, r_rake>>

vars == <<linesVars, angleVars, crossVars, projVars, attVars, rotVars>>

notLines == <<angleVars, crossVars, projVars, attVars, rotVars>>

notAngle == <<linesVars, crossVars, projVars, attVars, rotVars>>

notCross == <<linesVars, angleVars, projVars, attVars, rotVars>>

notProj == <<linesVars, angleVars, crossVars, attVars, rotVars>>

notAtt == <<linesVars, angleVars, crossVars, projVars, rotVars>>

notRot == <<linesVars, angleVars, crossVars, projVars, attVars>>

\* no call pending
Pending == [ok |-> FALSE, err |-> "pending"]

LinesIdle ==
    /\ entry = "none" /\ data = <<>> /\ z_tol = 0 /\ idx = 0 /\ current = <<>>
    /\ results = <<>> /\ clipped = <<>> /\ segs0 = <<>> /\ segments = <<>>
    /\ ids = <<>> /\ objs = <<>>
    /\ all_joined = FALSE /\ c_tol = Acos(One) /\ iters = 0 /\ pc = "done"

AngleIdle ==
    /\ a_self = <<0, 0, 0>> /\ a_other = <<0, 0, 0>>
    /\ a_default = Pending /\ a_precise = Pending

CrossIdle ==
    /\ set_a = <<>> /\ set_b = <<>> /\ x_pc = "done" /\ x_i = 0
    /\ x_vectors = <<>> /\ x_ab = <<>> /\ x_ba = <<>>

ProjIdle ==
    /\ p_kind = "none" /\ p_rotation = <<>> /\ p_R = <<>> /\ p_I = <<>>
    /\ p_data = <<>> /\ p_listed = FALSE /\ p_invert = FALSE /\ p_rotate = FALSE
    /\ p_pre = <<>> /\ p_XY = <<>> /\ p_unrotate = FALSE /\ p_back = Pending
    /\ p_pc = "inverted"

AttIdle ==
    /\ t_trend = 0 /\ t_plunge = 0 /\ t_vec = <<>> /\ t_att = <<>> /\ t_pc = "done"

RotIdle ==
    /\ r_angles = <<0, 0, 0>> /\ r_full = <<>> /\ r_azim = <<>>
    /\ r_plng = <<>> /\ r_rake = <<>>

\* as_lines(lines): one circle is clipped, then its runs are joined
InitAsLines ==
    /\ entry = "as_lines"
    /\ data \in PointSeqs
    /\ z_tol \in ZTols
    /\ c_tol \in CTols
    /\ idx = 0
    /\ current = <<>>
    /\ results = <<>>
    /\ clipped = <<>>
    /\ segs0 = <<>>
    /\ segments = <<>>
    /\ ids = <<>>
    /\ objs = <<>>
    /\ all_joined = FALSE
    /\ iters = 0
    /\ pc = "clip"

\* _join_segments(segments, c_tol) called on a list of non-empty segments
InitJoin ==
    /\ entry = "_join_segments"
    /\ data = <<>>
    /\ z_tol = 0
    /\ c_tol \in CTols
    /\ idx = 0
    /\ current = <<>>
    /\ results = <<>>
    /\ clipped = <<>>
    /\ \E pts \in PointSeqs : \E cuts \in SUBSET (1..(Len(pts) - 1)) :
          segs0 = SplitFrom(pts, cuts, 1)
    /\ segments = segs0
    /\ ids = [k \in 1..Len(segs0) |-> k]
    /\ objs = segs0
    /\ all_joined = FALSE
    /\ iters = 0
    /\ pc = "join"

InitLines ==
    (InitAsLines \/ InitJoin) /\ AngleIdle /\ CrossIdle /\ ProjIdle /\ AttIdle /\ RotIdle

\* _clip_lines: one iteration of the for loop
ClipStep ==
    /\ pc = "clip"
    /\ idx < Len(data)
    /\ LET r == ClipScan(current, results, data[idx + 1], z_tol)
       IN  /\ current' = r.current
           /\ results' = r.results
    /\ idx' = idx + 1
    /\ UNCHANGED <<entry, data, z_tol, clipped, segs0, segments, ids, objs,
                   all_joined, c_tol, iters, pc>>
    /\ UNCHANGED notLines

\* _clip_lines returns and as_lines hands the runs to _join_segments
ClipReturn ==
    /\ pc = "clip"
    /\ idx = Len(data)
    /\ LET r == ClipFlush(current, results)
       IN  /\ results' = r
           /\ clipped' = r
           /\ segs0' = r
           /\ segments' = r
           /\ ids' = [k \in 1..Len(r) |-> k]
           /\ objs' = r
    /\ current' = <<>>
    /\ all_joined' = FALSE
    /\ pc' = "join"
    /\ UNCHANGED <<entry, data, z_tol, idx, c_tol, iters>>
    /\ UNCHANGED notLines

\* JoinIter without the line all_joined = True
JoinIter_noflag ==
    /\ pc = "join"
    /\ ~all_joined /\ Len(segments) > 1
    /\ LET segment == Head(segments)
           rest == Tail(segments)
           m == Merge(segment, Head(rest), c_tol)
           target == IF Extended(segment, Head(rest), c_tol) = "segment_b"
                     THEN ids[2] ELSE ids[1]
       IN  /\ segments' = Append(IF m.merged THEN Tail(rest) ELSE rest, m.segment)
           /\ ids' = Append(IF m.merged THEN Tail(Tail(ids)) ELSE Tail(ids), target)
           /\ objs' = IF m.merged THEN [objs EXCEPT ![target] = m.segment] ELSE objs
           /\ all_joined' = FALSE
    /\ iters' = iters + 1
    /\ UNCHANGED <<entry, data, z_tol, idx, current, results, clipped, segs0,
                   c_tol, pc>>
    /\ UNCHANGED notLines

\* _join_segments: one iteration of the while loop
JoinIter ==
    /\ pc = "join"
    /\ ~all_joined /\ Len(segments) > 1
    /\ LET segment == Head(segments)
           rest == Tail(segments)
           m == Merge(segment, Head(rest), c_tol)
           target == IF Extended(segment, Head(rest), c_tol) = "segment_b"
                     THEN ids[2] ELSE ids[1]
       IN  /\ segments' = Append(IF m.merged THEN Tail(rest) ELSE rest, m.segment)
           /\ ids' = Append(IF m.merged THEN Tail(Tail(ids)) ELSE Tail(ids), target)
           /\ objs' = IF m.merged THEN [objs EXCEPT ![target] = m.segment] ELSE objs
           /\ all_joined' = ~m.merged
    /\ iters' = iters + 1
    /\ UNCHANGED <<entry, data, z_tol, idx, current, results, clipped, segs0,
                   c_tol, pc>>
    /\ UNCHANGED notLines

\* _join_segments: the loop ends and the list is returned
JoinReturn ==
    /\ pc = "join"
    /\ ~(~all_joined /\ Len(segments) > 1)
    /\ pc' = "done"
    /\ UNCHANGED <<entry, data, z_tol, idx, current, results, clipped, segs0,
                   segments, ids, objs, all_joined, c_tol, iters>>
    /\ UNCHANGED notLines

NextLines == ClipStep \/ ClipReturn \/ JoinIter \/ JoinReturn

SpecLines == InitLines /\ [][NextLines]_vars

----------------------------------------------------------------------------
(* Vector.angle_with, called both ways on the same pair                     *)

\* the vectors are drawn from the integer grid -GridMax..GridMax
GridMax == 1

Grid == (-GridMax)..GridMax

NonZeroVectors == (Grid \X Grid \X Grid) \ {<<0, 0, 0>>}

InitAngle ==
    /\ a_self \in NonZeroVectors
    /\ a_other \in NonZeroVectors
    /\ a_default = Pending
    /\ a_precise = Pending
    /\ LinesIdle /\ CrossIdle /\ ProjIdle /\ AttIdle /\ RotIdle

\* self.angle_with(other)
AngleDefault ==
    /\ a_default = Pending
    /\ a_default' = angle_with(a_self, a_other, FALSE)
    /\ UNCHANGED <<a_self, a_other, a_precise, notAngle>>

\* self.angle_with(other, precise=True)
AnglePrecise ==
    /\ a_precise = Pending
    /\ a_precise' = angle_with(a_self, a_other, TRUE)
    /\ UNCHANGED <<a_self, a_other, a_default, notAngle>>

NextAngle == AngleDefault \/ AnglePrecise

SpecAngle == InitAngle /\ [][NextAngle]_vars

----------------------------------------------------------------------------
(* VectorSet.normalized_cross_with, called as A x B and then as B x A       *)

\* number of vectors of a VectorSet
MaxSet == 2

\* the vectors the sets are drawn from
CrossVectors == {<<1, 0, 0>>, <<0, 1, 0>>, <<0, 0, 1>>, <<1, 1, 1>>}

VectorSets == UNION {[1..n -> CrossVectors] : n \in 0..MaxSet}

\* an integer vector as a vector of numbers
NVec(v) == <<NInt(v[1]), NInt(v[2]), NInt(v[3])>>

\* normalized_cross
normalized_cross(a, b) ==
    LET c == Cross(a, b)
        len == NSqrtR(<<Dot(c, c), 1>>)
    IN  IF NLt(Zero, len)
        THEN <<NDiv(NInt(c[1]), len), NDiv(NInt(c[2]), len), NDiv(NInt(c[3]), len)>>
        ELSE NVec(c)

\* Orient with the flip left out
Orient_noflip(cross) == cross

\* cross if cross[2] < 0 else -cross
Orient(cross) ==
    IF NLt(cross[3], Zero) THEN cross
    ELSE <<NNeg(cross[1]), NNeg(cross[2]), NNeg(cross[3])>>

\* np.zeros((n, 3))
Zeros(n) == [k \in 1..n |-> NVec(<<0, 0, 0>>)]

InitCross ==
    /\ set_a \in VectorSets
    /\ set_b \in VectorSets
    /\ x_pc = "ab"
    /\ x_i = 0
    /\ x_vectors = Zeros(Len(set_a) * Len(set_b))
    /\ x_ab = <<>>
    /\ x_ba = <<>>
    /\ LinesIdle /\ AngleIdle /\ ProjIdle /\ AttIdle /\ RotIdle

\* normalized_cross_with: one iteration of the inner loop
CrossStep ==
    /\ x_pc \in {"ab", "ba"}
    /\ x_i < Len(set_a) * Len(set_b)
    /\ LET self == IF x_pc = "ab" THEN set_a ELSE set_b
           other == IF x_pc = "ab" THEN set_b ELSE set_a
           self_vector == self[(x_i \div Len(other)) + 1]
           other_vector == other[(x_i % Len(other)) + 1]
           cross == normalized_cross(self_vector, other_vector)
       IN  x_vectors' = [x_vectors EXCEPT ![x_i + 1] = Orient(cross)]
    /\ x_i' = x_i + 1
    /\ UNCHANGED <<set_a, set_b, x_pc, x_ab, x_ba, notCross>>

\* normalized_cross_with returns; after A x B the caller starts B x A
CrossReturn ==
    /\ x_pc \in {"ab", "ba"}
    /\ x_i = Len(set_a) * Len(set_b)
    /\ IF x_pc = "ab"
       THEN /\ x_ab' = x_vectors
            /\ x_vectors' = Zeros(Len(set_a) * Len(set_b))
            /\ x_pc' = "ba"
            /\ x_ba' = x_ba
       ELSE /\ x_ba' = x_vectors
            /\ x_pc' = "done"
            /\ UNCHANGED <<x_ab, x_vectors>>
    /\ x_i' = 0
    /\ UNCHANGED <<set_a, set_b, notCross>>

NextCross == CrossStep \/ CrossReturn

SpecCross == InitCross /\ [][NextCross]_vars

----------------------------------------------------------------------------
(* build_rotation_matrix and the projections                                *)

\* cos and sin of a multiple of 90 degrees
CosDeg(d) == CASE d % 360 = 0 -> 1 [] d % 360 = 90 -> 0 [] d % 360 = 180 -> -1 [] d % 360 = 270 -> 0

SinDeg(d) == CosDeg(d + 270)

\* np.ndarray.dot of two 3 x 3 matrices
MatMul(A, B) ==
    [i \in 1..3 |-> [j \in 1..3 |-> A[i][1] * B[1][j] + A[i][2] * B[2][j] + A[i][3] * B[3][j]]]

\* build_rotation_matrix with the product taken in the opposite order
build_rotation_matrix_reversed(azim, plng, rake) ==
    LET R1 == << <<CosDeg(rake), 0, SinDeg(rake)>>,
                 <<0, 1, 0>>,
                 <<-SinDeg(rake), 0, CosDeg(rake)>> >>
        R2 == << <<1, 0, 0>>,
                 <<0, CosDeg(plng), SinDeg(plng)>>,
                 <<0, -SinDeg(plng), CosDeg(plng)>> >>
        R3 == << <<CosDeg(azim), SinDeg(azim), 0>>,
                 <<-SinDeg(azim), CosDeg(azim), 0>>,
                 <<0, 0, 1>> >>
    IN  MatMul(MatMul(R1, R2), R3)

build_rotation_matrix(azim, plng, rake) ==
    LET R1 == << <<CosDeg(rake), 0, SinDeg(rake)>>,
                 <<0, 1, 0>>,
                 <<-SinDeg(rake), 0, CosDeg(rake)>> >>
        R2 == << <<1, 0, 0>>,
                 <<0, CosDeg(plng), SinDeg(plng)>>,
                 <<0, -SinDeg(plng), CosDeg(plng)>> >>
        R3 == << <<CosDeg(azim), SinDeg(azim), 0>>,
                 <<-SinDeg(azim), CosDeg(azim), 0>>,
                 <<0, 0, 1>> >>
    IN  MatMul(MatMul(R3, R2), R1)

Identity3 == << <<1, 0, 0>>, <<0, 1, 0>>, <<0, 0, 1>> >>

\* the index after k, cyclically in 1..3
Nxt(k) == (k % 3) + 1

\* cofactor (i, j) of a 3 x 3 matrix
Cofactor(M, i, j) ==
    M[Nxt(i)][Nxt(j)] * M[Nxt(Nxt(i))][Nxt(Nxt(j))]
        - M[Nxt(i)][Nxt(Nxt(j))] * M[Nxt(Nxt(i))][Nxt(j)]

Det3(M) == M[1][1] * Cofactor(M, 1, 1) + M[1][2] * Cofactor(M, 1, 2) + M[1][3] * Cofactor(M, 1, 3)

\* np.linalg.inv of an integer matrix of determinant 1 or -1
Inv3(M) == [i \in 1..3 |-> [j \in 1..3 |-> Cofactor(M, j, i) \div Det3(M)]]

\* not a number
NaN == [s |-> 0, q |-> <<0, 0>>]

\* the rational value of a number that is rational
NToRat(a) == <<a.s * ISqrt(a.q[1]), ISqrt(a.q[2])>>

\* M.dot(v) for an integer matrix and a vector of numbers
MatVecN(M, v) ==
    IF \E k \in 1..3 : v[k] = NaN THEN <<NaN, NaN, NaN>>
    ELSE [i \in 1..3 |->
            NAdd(NAdd(NMul(NInt(M[i][1]), v[1]), NMul(NInt(M[i][2]), v[2])),
                 NMul(NInt(M[i][3]), v[3]))]

\* _pre_direct with the hemisphere flip left out
pre_direct_noflip(R, rotation, v, invert_positive, rotate) ==
    LET w == IF rotate /\ rotation # <<>> THEN MatVecN(R, v) ELSE v
        d == NDiv(One, NSqrtR(RAdd(RAdd(NSq(w[1]), NSq(w[2])), NSq(w[3]))))
    IN  <<NMul(d, w[1]), NMul(d, w[2]), NMul(d, w[3])>>

\* ProjectionBase._pre_direct on one point
pre_direct(R, rotation, v, invert_positive, rotate) ==
    LET w == IF rotate /\ rotation # <<>> THEN MatVecN(R, v) ELSE v
        d == NDiv(One, NSqrtR(RAdd(RAdd(NSq(w[1]), NSq(w[2])), NSq(w[3]))))
    IN  IF invert_positive
        THEN LET c == NMul(IF NLt(Zero, w[3]) THEN NInt(-1) ELSE One, d)
             IN  <<NMul(c, w[1]), NMul(c, w[2]), NMul(c, w[3])>>
        ELSE <<NMul(d, w[1]), NMul(d, w[2]), NMul(d, w[3])>>

\* the three _dtr methods; 0 / 0 and 0 * inf at z = 1 are nan
dtr(kind, x, y, z) ==
    CASE kind = "EqualAngle" ->
            LET den == NSub(One, z)
            IN  IF den = Zero THEN <<NaN, NaN>> ELSE <<NDiv(x, den), NDiv(y, den)>>
      [] kind = "Orthographic" -> <<x, y>>
      [] kind = "EqualArea" ->
            LET den == NSub(One, z)
            IN  IF den = Zero THEN <<NaN, NaN>>
                ELSE LET f == NSqrtR(RDiv(<<1, 1>>, NToRat(den)))
                     IN  <<NMul(x, f), NMul(y, f)>>

\* the three _itr methods
itr(kind, X, Y) ==
    IF X = NaN \/ Y = NaN THEN <<NaN, NaN, NaN>>
    ELSE CASE kind = "EqualAngle" ->
            LET r2 == RAdd(NSq(X), NSq(Y))
                den == NRat(RAdd(<<1, 1>>, r2))
            IN  <<NDiv(NMul(NInt(2), X), den),
                  NDiv(NMul(NInt(2), Y), den),
                  NDiv(NRat(RAdd(<<-1, 1>>, r2)), den)>>
      [] kind = "Orthographic" ->
            LET t == RSub(RSub(<<1, 1>>, NSq(X)), NSq(Y))
            IN  <<X, Y, IF t[1] < 0 THEN NaN ELSE NSqrtR(t)>>
      [] kind = "EqualArea" ->
            LET X2 == NMul(X, NSqrtR(<<2, 1>>))
                Y2 == NMul(Y, NSqrtR(<<2, 1>>))
                r2 == RAdd(NSq(X2), NSq(Y2))
                t == RSub(<<1, 1>>, RDiv(r2, <<4, 1>>))
                f == IF t[1] < 0 THEN NaN ELSE NSqrtR(t)
            IN  <<IF f = NaN THEN NaN ELSE NMul(f, X2),
                  IF f = NaN THEN NaN ELSE NMul(f, Y2),
                  NRat(RAdd(<<-1, 1>>, RDiv(r2, <<2, 1>>)))>>

\* ProjectionBase._post_inverse on one point
post_inverse(I, rotation, u, rotate) ==
    IF rotate /\ rotation # <<>> THEN MatVecN(I, u) ELSE u

\* ProjectionBase.inverse applied to what direct returned.  For a bare point
\* direct returns the pair (X, Y) and inverse unpacks it into _itr(X, Y).  For
\* a list of n points direct returns (Xs, Ys); np.transpose makes that n rows
\* and _itr is called with n positional arguments, which raises TypeError
\* unless n = 2.
inverse(kind, I, rotation, XY, listed, rotate) ==
    LET args == IF listed THEN [k \in 1..Len(XY[1]) |-> <<XY[1][k], XY[2][k]>>] ELSE XY
    IN  IF Len(args) # 2 THEN [ok |-> FALSE, err |-> "TypeError"]
        ELSE [ok |-> TRUE,
              value |-> post_inverse(I, rotation, itr(kind, args[1], args[2]), rotate)]

\* the coordinates of the points are drawn from -ProjGrid..ProjGrid
ProjGrid == 2

\* the rotation angles, in degrees
RotAngles == {0, 90, 180}

\* rotation = None is <<>>
Rotations == {<<>>} \cup (RotAngles \X RotAngles \X RotAngles)

\* the non-zero integer points of rational length
PythInt ==
    {v \in ((-ProjGrid)..ProjGrid) \X ((-ProjGrid)..ProjGrid) \X ((-ProjGrid)..ProjGrid) :
        v # <<0, 0, 0>> /\ IsSquare(Dot(v, v))}

\* the point v / d as a vector of numbers
Scaled(v, d) == <<NRat(Rat(v[1], d)), NRat(Rat(v[2], d)), NRat(Rat(v[3], d))>>

\* those points, and the unit vectors along them
ProjData == {Scaled(v, 1) : v \in PythInt} \cup {Scaled(v, ISqrt(Dot(v, v))) : v \in PythInt}

\* Projection.__init__, and the point a caller is about to project; p_data
\* holds the point v, p_listed tells whether the caller passes v or [v]
InitProj ==
    /\ p_kind \in {"EqualAngle", "Orthographic", "EqualArea"}
    /\ p_rotation \in Rotations
    /\ p_R = IF p_rotation # <<>>
             THEN build_rotation_matrix(p_rotation[1], p_rotation[2], p_rotation[3])
             ELSE Identity3
    /\ p_I = Inv3(p_R)
    /\ p_data \in ProjData
    /\ p_listed \in BOOLEAN
    /\ p_invert = FALSE
    /\ p_rotate = FALSE
    /\ p_pre = <<>>
    /\ p_XY = <<>>
    /\ p_unrotate = FALSE
    /\ p_back = Pending
    /\ p_pc = "new"
    /\ LinesIdle /\ AngleIdle /\ CrossIdle /\ AttIdle /\ RotIdle

\* direct(data, invert_positive, rotate)
Direct ==
    /\ p_pc = "new"
    /\ \E invert_positive \in BOOLEAN : \E rotate \in BOOLEAN :
          LET pre == pre_direct(p_R, p_rotation, p_data, invert_positive, rotate)
              XY == dtr(p_kind, pre[1], pre[2], pre[3])
          IN  /\ p_invert' = invert_positive
              /\ p_rotate' = rotate
              /\ p_pre' = pre
              /\ p_XY' = IF p_listed THEN << <<XY[1]>>, <<XY[2]>> >> ELSE XY
    /\ p_pc' = "projected"
    /\ UNCHANGED <<p_kind, p_rotation, p_R, p_I, p_data, p_listed, p_unrotate, p_back,
                   notProj>>

\* inverse(direct(...), rotate)
Inverse ==
    /\ p_pc = "projected"
    /\ \E rotate \in BOOLEAN :
          /\ p_unrotate' = rotate
          /\ p_back' = inverse(p_kind, p_I, p_rotation, p_XY, p_listed, rotate)
    /\ p_pc' = "inverted"
    /\ UNCHANGED <<p_kind, p_rotation, p_R, p_I, p_data, p_listed, p_invert,
                   p_rotate, p_pre, p_XY, notProj>>

NextProj == Direct \/ Inverse

SpecProj == InitProj /\ [][NextProj]_vars

----------------------------------------------------------------------------
(* dcos_line, Vector.from_attitude and Vector.attitude                      *)

\* cos of a multiple of 30 or 45 degrees
NCos(d) ==
    LET r == d % 360
        a == IF r > 180 THEN 360 - r ELSE r
        b == IF a > 90 THEN 180 - a ELSE a
        c == CASE b = 0 -> One
               [] b = 30 -> NSqrtR(<<3, 4>>)
               [] b = 45 -> NSqrtR(<<1, 2>>)
               [] b = 60 -> NSqrtR(<<1, 4>>)
               [] b = 90 -> Zero
    IN  IF a > 90 THEN NNeg(c) ELSE c

NSin(d) == NCos(d + 270)

OnGrid(d) == (d + 360) % 30 = 0 \/ (d + 360) % 45 = 0

\* degrees(math.atan2(x, y)): the angle t in (-180, 180] with
\* (x, y) = r (sin t, cos t) for some r > 0; atan2(0, 0) = 0
DegAtan2(x, y) ==
    IF x = Zero /\ y = Zero THEN 0
    ELSE CHOOSE t \in {d \in (-179)..180 : OnGrid(d)} :
            /\ NSin(t + 360).s = x.s
            /\ NCos(t + 360).s = y.s
            /\ RMul(x.q, NCos(t + 360).q) = RMul(y.q, NSin(t + 360).q)

\* degrees(math.asin(a)) for a in [0, 1]
DegAsin(a) == CHOOSE t \in {0, 30, 45, 60, 90} : NSin(t) = a

dcos_line(tr, pl) ==
    <<NMul(NCos(pl), NSin(tr)), NMul(NCos(pl), NCos(tr)), NNeg(NSin(pl))>>

\* Vector.from_attitude
from_attitude(trend, plunge) == dcos_line(trend, plunge)

\* Vector.attitude with the trend not reduced modulo 360
attitude_nomod(self) ==
    LET len == NSqrtR(RAdd(RAdd(NSq(self[1]), NSq(self[2])), NSq(self[3])))
        x0 == NDiv(self[1], len)
        y0 == NDiv(self[2], len)
        z == NDiv(self[3], len)
        x == IF NLt(Zero, z) THEN NNeg(x0) ELSE x0
        y == IF NLt(Zero, z) THEN NNeg(y0) ELSE y0
    IN  <<DegAtan2(x, y), DegAsin(NAbs(z))>>

\* Vector.attitude
attitude(self) ==
    LET len == NSqrtR(RAdd(RAdd(NSq(self[1]), NSq(self[2])), NSq(self[3])))
        x0 == NDiv(self[1], len)
        y0 == NDiv(self[2], len)
        z == NDiv(self[3], len)
        x == IF NLt(Zero, z) THEN NNeg(x0) ELSE x0
        y == IF NLt(Zero, z) THEN NNeg(y0) ELSE y0
    IN  <<DegAtan2(x, y) % 360, DegAsin(NAbs(z))>>

\* the trends and plunges the inputs are drawn from, in degrees
Trends == {d \in (-180)..539 : OnGrid(d)}

Plunges == {d \in (-90)..90 : OnGrid(d)}

InitAtt ==
    /\ t_trend \in Trends
    /\ t_plunge \in Plunges
    /\ t_vec = <<>>
    /\ t_att = <<>>
    /\ t_pc = "new"
    /\ LinesIdle /\ AngleIdle /\ CrossIdle /\ ProjIdle /\ RotIdle

\* v = Vector.from_attitude(trend, plunge)
FromAttitude ==
    /\ t_pc = "new"
    /\ t_vec' = from_attitude(t_trend, t_plunge)
    /\ t_pc' = "vector"
    /\ UNCHANGED <<t_trend, t_plunge, t_att, notAtt>>

\* v.attitude
GetAttitude ==
    /\ t_pc = "vector"
    /\ t_att' = attitude(t_vec)
    /\ t_pc' = "done"
    /\ UNCHANGED <<t_trend, t_plunge, t_vec, notAtt>>

NextAtt == FromAttitude \/ GetAttitude

SpecAtt == InitAtt /\ [][NextAtt]_vars

----------------------------------------------------------------------------
(* build_rotation_matrix, called on three angles and on each angle alone    *)

\* the angles the inputs are drawn from, in degrees
Quarters == {0, 90, 180, 270}

\* a caller holding three angles; nothing is built yet
InitRot ==
    /\ r_angles \in Quarters \X Quarters \X Quarters
    /\ r_full = <<>>
    /\ r_azim = <<>>
    /\ r_plng = <<>>
    /\ r_rake = <<>>
    /\ LinesIdle /\ AngleIdle /\ CrossIdle /\ ProjIdle /\ AttIdle

\* build_rotation_matrix(azimuth, plunge, rake)
BuildFull ==
    /\ r_full = <<>>
    /\ r_full' = build_rotation_matrix(r_angles[1], r_angles[2], r_angles[3])
    /\ UNCHANGED <<r_angles, r_azim, r_plng, r_rake, notRot>>

\* build_rotation_matrix(azimuth, 0, 0)
BuildAzim ==
    /\ r_azim = <<>>
    /\ r_azim' = build_rotation_matrix(r_angles[1], 0, 0)
    /\ UNCHANGED <<r_angles, r_full, r_plng, r_rake, notRot>>

\* build_rotation_matrix(0, plunge, 0)
BuildPlng ==
    /\ r_plng = <<>>
    /\ r_plng' = build_rotation_matrix(0, r_angles[2], 0)
    /\ UNCHANGED <<r_angles, r_full, r_azim, r_rake, notRot>>

\* build_rotation_matrix(0, 0, rake)
BuildRake ==
    /\ r_rake = <<>>
    /\ r_rake' = build_rotation_matrix(0, 0, r_angles[3])
    /\ UNCHANGED <<r_angles, r_full, r_azim, r_plng, notRot>>

NextRot == BuildFull \/ BuildAzim \/ BuildPlng \/ BuildRake

SpecRot == InitRot /\ [][NextRot]_vars

----------------------------------------------------------------------------
(* Claims about _clip_lines and _join_segments                              *)

\* the maximal intervals lo..hi of indices of d whose points all have z < zt
Runs(d, zt) ==
    LET vis == {i \in 1..Len(d) : d[i][3] < zt}
    IN  {r \in (1..Len(d)) \X (1..Len(d)) :
            /\ r[1] <= r[2]
            /\ \A i \in r[1]..r[2] : i \in vis
            /\ (r[1] - 1) \notin vis
            /\ (r[2] + 1) \notin vis}

\* C1: _clip_lines returns exactly the maximal contiguous runs of points with
\* z < z_tol, in input order: as many segments as there are maximal runs, the
\* k-th segment being the k-th run; a non-empty input lying wholly below z_tol
\* comes back as the single segment equal to the input.
C1_ClipMaximalRuns ==
    (entry = "as_lines" /\ pc # "clip") =>
        LET runs == Runs(data, z_tol)
        IN  /\ Len(clipped) = Cardinality(runs)
            /\ \A r \in runs :
                  clipped[Cardinality({t \in runs : t[1] <= r[1]})]
                      = SubSeq(data, r[1], r[2])
            /\ (data # <<>> /\ \A i \in 1..Len(data) : data[i][3] < z_tol)
                  => clipped = <<data>>

\* a clip that closed two runs, one of them of several points
C1_Witness ==
    /\ entry = "as_lines" /\ pc # "clip"
    /\ Len(clipped) = 2
    /\ \E s \in 1..2 : Len(clipped[s]) >= 2

\* the visible part of data is the cyclic arc 1..i, j..n that wraps around the
\* start; first and last point are within the tolerance, the two points at
\* the clip boundary are farther apart than the tolerance
WrappedArc(i, j) ==
    LET n == Len(data)
    IN  /\ 1 <= i /\ i + 1 < j /\ j <= n
        /\ \A k \in 1..n : (data[k][3] < z_tol) <=> (k <= i \/ k >= j)
        /\ Close(data[1], data[n], c_tol)
        /\ AngleLt(c_tol, angle_with(data[i], data[j], FALSE).angle)

\* C2: a closed circle whose visible arc wraps around the start of the
\* sequence is joined back into one segment, the second clipped run followed
\* by the first.
C2_WrappedCircleRejoined ==
    (entry = "as_lines" /\ pc = "done") =>
        \A i, j \in 1..Len(data) :
            WrappedArc(i, j) =>
                segments = <<SubSeq(data, j, Len(data)) \o SubSeq(data, 1, i)>>

\* a finished as_lines call on such a circle
C2_Witness ==
    /\ entry = "as_lines" /\ pc = "done"
    /\ \E i, j \in 1..Len(data) : WrappedArc(i, j)

\* some endpoint of s is within tol of some endpoint of t
EndsClose(s, t, tol) ==
    \E p \in {s[1], Last(s)} : \E q \in {t[1], Last(t)} : Close(p, q, tol)

\* C3: when _join_segments returns, either one segment remains or no two
\* distinct segments of the result have endpoints within the tolerance.
C3_NoMergeLeft ==
    pc = "done" =>
        \/ Len(segments) = 1
        \/ \A a, b \in 1..Len(segments) :
              a # b => ~EndsClose(segments[a], segments[b], c_tol)

\* p and q are neighbours, in either order, somewhere in seg
ConsecIn(seg, p, q) ==
    \E k \in 1..(Len(seg) - 1) :
        \/ seg[k] = p /\ seg[k + 1] = q
        \/ seg[k] = q /\ seg[k + 1] = p

\* C4: in every returned segment each pair of consecutive points either was
\* consecutive inside one input segment or is within the tolerance.
C4_NoSpuriousChord ==
    pc = "done" =>
        \A s \in 1..Len(segments) : \A k \in 1..(Len(segments[s]) - 1) :
            \/ \E t \in 1..Len(segs0) :
                  ConsecIn(segs0[t], segments[s][k], segments[s][k + 1])
            \/ Close(segments[s][k], segments[s][k + 1], c_tol)

\* fewer than two segments, or no endpoint within the tolerance of an endpoint
\* of a different segment
NothingToJoin ==
    \/ Len(segs0) < 2
    \/ \A a, b \in 1..Len(segs0) : a # b => ~EndsClose(segs0[a], segs0[b], c_tol)

Occurrences(ss, x) == Cardinality({k \in 1..Len(ss) : ss[k] = x})

\* C5: when there is nothing to join the result consists of exactly the input
\* segments, each with its points in the original order, and a list of fewer
\* than two segments is returned unchanged.
C5_NothingToJoinNoMerge ==
    (pc = "done" /\ NothingToJoin) =>
        /\ Len(segments) = Len(segs0)
        /\ \A k \in 1..Len(segs0) :
              Occurrences(segments, segs0[k]) = Occurrences(segs0, segs0[k])
        /\ Len(segs0) < 2 => segments = segs0

\* three segments, none joinable, under a tolerance that is not zero
C5_Witness ==
    /\ pc = "done" /\ NothingToJoin
    /\ Len(segs0) = 3
    /\ c_tol # Acos(One)
    /\ iters = 1

----------------------------------------------------------------------------
(* Claims about Vector.angle_with and VectorSet.normalized_cross_with       *)

\* the normal returned for the pair (A[i], B[j]) and for the pair (B[j], A[i])
NormalAB(i, j) == x_ab[(i - 1) * Len(set_b) + j]

NormalBA(i, j) == x_ba[(j - 1) * Len(set_a) + i]

\* C9: the normal returned for (a, b) equals the one returned for (b, a), and
\* every non-zero returned normal has negative z.
C9_OrderIndependent ==
    x_pc = "done" =>
        \A i \in 1..Len(set_a) : \A j \in 1..Len(set_b) :
            /\ NormalAB(i, j) = NormalBA(i, j)
            /\ NormalAB(i, j) # NVec(<<0, 0, 0>>) => NormalAB(i, j)[3].s < 0

\* C9 as amended: when a x b has a non-zero z component the two normals are
\* equal and have negative z; when a x b is horizontal (z = 0) the two normals
\* are opposite; no returned normal has positive z.
C9_OrderIndependentOffHorizontal ==
    x_pc = "done" =>
        \A i \in 1..Len(set_a) : \A j \in 1..Len(set_b) :
            LET z == (set_a[i][1] * set_b[j][2]) - (set_a[i][2] * set_b[j][1])
                ab == NormalAB(i, j)
                ba == NormalBA(i, j)
            IN  /\ z # 0 => (ab = ba /\ ab[3].s < 0)
                /\ z = 0 => ab = <<NNeg(ba[1]), NNeg(ba[2]), NNeg(ba[3])>>
                /\ ab[3].s <= 0 /\ ba[3].s <= 0

\* both calls returned, on a pair whose cross product points upwards and on a
\* pair whose cross product is horizontal
C9_Witness ==
    /\ x_pc = "done"
    /\ \E i \in 1..Len(set_a) : \E j \in 1..Len(set_b) :
          /\ Cross(set_a[i], set_b[j])[3] > 0
          /\ NormalAB(i, j)[3].s < 0
    /\ \E i \in 1..Len(set_a) : \E j \in 1..Len(set_b) :
          /\ Cross(set_a[i], set_b[j])[3] = 0
          /\ Cross(set_a[i], set_b[j]) # <<0, 0, 0>>

\* C10: angle_with(other, precise=True) does not fail and returns the angle
\* atan2(|a x b|, a . b), which is the angle the default call returns.
C10_PreciseAngle ==
    a_precise # Pending =>
        /\ a_precise.ok
        /\ LET c == Cross(a_self, a_other)
               d == Dot(a_self, a_other)
           IN  a_precise.angle
                   = Angle(FALSE, NDiv(NInt(d), NSqrtR(<<Dot(c, c) + d * d, 1>>)))
        /\ a_default # Pending => a_precise.angle = a_default.angle

----------------------------------------------------------------------------
(* Claims about the projections and the attitude conversion                 *)

\* C6: with invert_positive=True the point handed to the forward transform
\* has z <= 0, so 1 - z is not zero and the transform returns finite numbers.
C6_InvertPositiveAvoidsPole ==
    (p_pc # "new" /\ p_invert) =>
        /\ p_pre[3].s <= 0
        /\ NSub(One, p_pre[3]) # Zero
        /\ \A k \in 1..2 : (IF p_listed THEN p_XY[k][1] ELSE p_XY[k]) # NaN

\* an equal-angle projection whose rotation turns a point of the lower
\* hemisphere upwards, projected with invert_positive=True
C6_Witness ==
    /\ p_pc = "projected" /\ p_invert /\ p_rotate
    /\ p_kind = "EqualAngle"
    /\ p_rotation # <<>>
    /\ p_data[3].s < 0
    /\ MatVecN(p_R, p_data)[3].s > 0
    /\ p_pre[3].s < 0

IsUnit(v) == RAdd(RAdd(NSq(v[1]), NSq(v[2])), NSq(v[3])) = <<1, 1>>

\* C7: for each projection and every unit vector v with z <= 0 (not carried
\* onto the pole z = 1 of the transform by the rotation),
\* inverse(direct([v], invert_positive=False)) returns v.
C7_RoundTrip ==
    (/\ p_pc = "inverted"
     /\ p_listed /\ ~p_invert /\ p_rotate /\ p_unrotate
     /\ IsUnit(p_data) /\ p_data[3].s <= 0
     /\ p_pre[3] # One)
        => (p_back.ok /\ p_back.value = <<p_data>>)

\* C8: from_attitude(trend, plunge).attitude gives back (trend, plunge) for
\* trend in [0, 360) and plunge in [0, 90], any trend being accepted at
\* plunge = 90; the returned trend is in [0, 360), the returned plunge in
\* [0, 90].
C8_AttitudeRoundTrip ==
    t_pc = "done" =>
        /\ (0 <= t_trend /\ t_trend < 360 /\ 0 <= t_plunge /\ t_plunge <= 90) =>
              /\ t_att[2] = t_plunge
              /\ t_plunge # 90 => t_att[1] = t_trend
        /\ 0 <= t_att[1] /\ t_att[1] < 360
        /\ 0 <= t_att[2] /\ t_att[2] <= 90

\* a round trip through a westward trend, where atan2 is negative
C8_Witness ==
    /\ t_pc = "done"
    /\ t_trend = 240 /\ t_plunge = 30
    /\ t_att = <<240, 30>>

----------------------------------------------------------------------------
(* Claims about build_rotation_matrix                                       *)

\* M.dot(v) for an integer matrix and an integer vector
MatVec(M, v) == [i \in 1..3 |-> M[i][1] * v[1] + M[i][2] * v[2] + M[i][3] * v[3]]

\* the four matrices are built
RotBuilt == r_full # <<>> /\ r_azim # <<>> /\ r_plng # <<>> /\ r_rake # <<>>

\* the full matrix is the azimuth matrix times the plunge matrix times the rake
\* matrix, so that a vector is turned by the rake first and the azimuth last
RotComposed == r_full = MatMul(MatMul(r_azim, r_plng), r_rake)

\* C11 as stated: build_rotation_matrix(azimuth, plunge, rake) is the rake
\* rotation applied first, the plunge rotation second and the azimuth
\* rotation last, where the rake rotation is about the x axis (it leaves the x
\* axis fixed), the plunge rotation about the y axis (it leaves the y axis
\* fixed) and the azimuth rotation about the z axis.
C11_RakeAboutX_PlungeAboutY ==
    RotBuilt =>
        /\ RotComposed
        /\ MatVec(r_rake, <<1, 0, 0>>) = <<1, 0, 0>>
        /\ MatVec(r_plng, <<0, 1, 0>>) = <<0, 1, 0>>
        /\ MatVec(r_azim, <<0, 0, 1>>) = <<0, 0, 1>>

\* C11 amended: build_rotation_matrix(azimuth, plunge, rake) is the rake
\* rotation applied first, the plunge rotation second and the azimuth
\* rotation last, where the rake rotation is about the y axis (it leaves the y
\* axis fixed and turns the x axis to (cos rake, 0, -sin rake)), the plunge
\* rotation is about the x axis (it leaves the x axis fixed and turns the y
\* axis to (0, cos plunge, -sin plunge)) and the azimuth rotation is about the
\* z axis (it leaves the z axis fixed and turns the x axis to
\* (cos azimuth, -sin azimuth, 0)).
C11_RakeAboutY_PlungeAboutX ==
    RotBuilt =>
        /\ RotComposed
        /\ MatVec(r_rake, <<0, 1, 0>>) = <<0, 1, 0>>
        /\ MatVec(r_rake, <<1, 0, 0>>) = <<CosDeg(r_angles[3]), 0, -SinDeg(r_angles[3])>>
        /\ MatVec(r_plng, <<1, 0, 0>>) = <<1, 0, 0>>
        /\ MatVec(r_plng, <<0, 1, 0>>) = <<0, CosDeg(r_angles[2]), -SinDeg(r_angles[2])>>
        /\ MatVec(r_azim, <<0, 0, 1>>) = <<0, 0, 1>>
        /\ MatVec(r_azim, <<1, 0, 0>>) = <<CosDeg(r_angles[1]), -SinDeg(r_angles[1]), 0>>

\* the four matrices built for three quarter turns that do not commute
C11_Witness ==
    /\ RotBuilt
    /\ r_angles = <<90, 90, 90>>
    /\ r_full # MatMul(MatMul(r_rake, r_plng), r_azim)

----------------------------------------------------------------------------
(* Claims about the effects and the loop of _join_segments                  *)

\* C12 as stated: _join_segments is a pure function of its input: when it
\* returns, the list of segments passed in holds the same segments in the same
\* order as at the call, and every list that was in it holds the same points.
C12_JoinLeavesArgument ==
    pc = "done" => (segments = segs0 /\ objs = segs0)

\* how many times the point p occurs in the segments of ss
PointCount(p, ss) == Cardinality({i \in 1..Len(Flatten(ss)) : Flatten(ss)[i] = p})

\* the segments of the list hold the points of the argument, each as often
SamePoints == \A p \in Points : PointCount(p, segments) = PointCount(p, segs0)

\* C13: _join_segments conserves points: after every loop iteration and on
\* return the points of all segments, counted with multiplicity, are the
\* points of the input segments, and no step raises the number of segments.
\* Within an iteration the held-out segment and the list hold the points of
\* the list before the iteration until the merge, and of the list after it
\* from then on.
C13_JoinConservesPoints ==
    [][pc = "join" => (SamePoints' /\ Len(segments') <= Len(segments))]_vars

\* two segments of two points joined tail to tail, the second one reversed
C13_Witness ==
    /\ pc = "done"
    /\ Len(segs0) = 2 /\ Len(segs0[1]) = 2 /\ Len(segs0[2]) = 2
    /\ segs0[2][1] # segs0[2][2]
    /\ segments = <<segs0[1] \o Reverse(segs0[2])>>

\* a bound on the steps _join_segments has left: none once it has returned,
\* the return alone once the loop condition is false, else one iteration for
\* each segment and the return
JoinVariant ==
    IF pc = "done" THEN 0
    ELSE IF all_joined \/ Len(segments) <= 1 THEN 1
    ELSE Len(segments) + 1

\* C14: _join_segments terminates for every finite list of non-empty segments
\* and every tolerance: each loop iteration either merges two segments,
\* lowering the segment count by one, or leaves the count and ends the loop
\* (the next step is the return); every step lowers the bound JoinVariant, and
\* the loop body never runs more often than there are input segments.
C14_JoinTerminates ==
    [][pc = "join" =>
          /\ (iters' = iters + 1) =>
                 \/ Len(segments') = Len(segments) - 1 /\ ~all_joined'
                 \/ Len(segments') = Len(segments) /\ all_joined' /\ JoinVariant' = 1
          /\ JoinVariant' < JoinVariant
          /\ iters' <= Len(segs0)]_vars

\* a call that returned after three iterations, at least one of them a merge
C14_Witness ==
    /\ pc = "done"
    /\ iters = 3
    /\ Len(segments) < Len(segs0)

====
